---------------------------- MODULE Spec2Model ----------------------------
(***************************************************************************)
(* A model of the student-record program: the domain entities Student and  *)
(* AcademicPerformance (RealPerformance / DesiredPerformance), the         *)
(* aggregate StudentData with its export to_dict, the three storage        *)
(* backends (JSONStorage, XMLStorage, CSVStorage) and the orchestration of *)
(* main() / save_student_data().                                           *)
(*                                                                         *)
(* Python strings are modelled as sequences of one-character strings, so   *)
(* that strip() and the key sanitisation act on characters.  A Python      *)
(* value that may or may not be an int is the pair <<kind, n>>.            *)
(***************************************************************************)
EXTENDS Integers, Sequences, FiniteSets, TLC

VARIABLES
    student,      \* the Student object under test, or NoObj
    today,        \* date.today(), as a day number
    perf,         \* role -> the AcademicPerformance object, or NoObj
    last,         \* the last call made: its operation, inputs and outcome
    data,         \* the record the last to_dict() returned, or NoData
    fs,           \* the file system: file name -> "partial" | "complete"
    pc,           \* the position of main()
    saved_files,  \* save_student_data's list of saved file names
    calls,        \* the save() calls of this save_student_data: [backend, exc]
    aggregate,    \* the StudentData object (it refers to student and perf), or NoObj
    filename      \* the file name stem the caller saves under

vars == <<student, today, perf, last, data, fs, pc, saved_files, calls, aggregate, filename>>

(***************************************************************************)
(* Bounds of the model.                                                    *)
(***************************************************************************)
MaxLen == 2        \* longest subject / grade list given as an input

(***************************************************************************)
(* Generic helpers.                                                        *)
(***************************************************************************)
Min(a, b) == IF a <= b THEN a ELSE b

Max(a, b) == IF a >= b THEN a ELSE b

SeqsUpTo(S, n) == UNION {[1..k -> S] : k \in 0..n}

NoObj == [none |-> TRUE]

NoData == [nodata |-> TRUE]

NoExc == [type |-> "none", msg |-> <<>>]

ValidationError(m) == [type |-> "ValidationError", msg |-> <<m>>]

Roles == {"real", "desired"}

(***************************************************************************)
(* Python values and strings.                                              *)
(***************************************************************************)
PyInt(n) == <<"int", n>>

PyFloat(n) == <<"float", n>>      \* the float n + 0.5

PyStr(n) == <<"str", n>>          \* some string, numbered n

IsInt(v) == v[1] = "int"

Whitespace == {" "}

\* str.strip(): drop leading, then trailing, whitespace
RECURSIVE LStrip(_)
LStrip(s) ==
    IF s # <<>> /\ Head(s) \in Whitespace THEN LStrip(Tail(s)) ELSE s

RECURSIVE RStrip(_)
RStrip(s) ==
    IF s # <<>> /\ s[Len(s)] \in Whitespace
    THEN RStrip(SubSeq(s, 1, Len(s) - 1))
    ELSE s

Strip(s) == RStrip(LStrip(s))

(***************************************************************************)
(* Student.  An object is the record of its six private fields; a date is  *)
(* <<"date", day number>>.                                                 *)
(***************************************************************************)
PyDate(n) == <<"date", n>>

IsDate(v) == v[1] = "date"

\* the common shape of the last_name, first_name, middle_name and
\* group_number setters: [exc, obj]
SetName(o, field, value) ==
    IF value = <<>> \/ Strip(value) = <<>>
    THEN [exc |-> ValidationError(field), obj |-> o]
    ELSE [exc |-> NoExc, obj |-> [o EXCEPT ![field] = Strip(value)]]

\* birth_date.setter with the comparison against date.today() left out
SetBirthDate_NoFutureCheck(o, value, now) ==
    IF ~IsDate(value)
    THEN [exc |-> ValidationError("birth_date: not a date"), obj |-> o]
    ELSE [exc |-> NoExc, obj |-> [o EXCEPT !.birth_date = value]]

\* birth_date.setter, called when date.today() is `now`
SetBirthDate(o, value, now) ==
    IF ~IsDate(value)
    THEN [exc |-> ValidationError("birth_date: not a date"), obj |-> o]
    ELSE IF value[2] > now
    THEN [exc |-> ValidationError("birth_date: in the future"), obj |-> o]
    ELSE [exc |-> NoExc, obj |-> [o EXCEPT !.birth_date = value]]

\* address.setter never raises
SetAddress(o, value) ==
    [exc |-> NoExc,
     obj |-> [o EXCEPT !.address = IF value # <<>> THEN Strip(value) ELSE <<>>]]

NameFields == <<"last_name", "first_name", "middle_name", "group_number">>

\* the four name setters of __init__, in order, from field k on
RECURSIVE SetNamesFrom(_, _, _)
SetNamesFrom(o, values, k) ==
    IF k > Len(NameFields) THEN [exc |-> NoExc, obj |-> o]
    ELSE LET r == SetName(o, NameFields[k], values[k])
         IN  IF r.exc # NoExc THEN r ELSE SetNamesFrom(r.obj, values, k + 1)

\* Student.__init__: [exc, obj]; obj is NoObj when a setter raises
NewStudent(names, birth_date, address, now) ==
    LET blank == [last_name |-> <<>>, first_name |-> <<>>, middle_name |-> <<>>,
                  group_number |-> <<>>, birth_date |-> PyDate(0), address |-> <<>>]
        n == SetNamesFrom(blank, names, 1)
    IN  IF n.exc # NoExc THEN [exc |-> n.exc, obj |-> NoObj]
        ELSE LET b == SetBirthDate(n.obj, birth_date, now)
             IN  IF b.exc # NoExc THEN [exc |-> b.exc, obj |-> NoObj]
                 ELSE SetAddress(b.obj, address)

(***************************************************************************)
(* AcademicPerformance (RealPerformance, DesiredPerformance).              *)
(* An object is [subjects |-> seq of strings, grades |-> seq of values].   *)
(***************************************************************************)
GradeInRange(g) == IsInt(g) /\ 0 <= g[2] /\ g[2] <= 100

\* _validate_grades as written, without the length comparison
ValidateGrades_NoLengthCheck(subjects, grades) ==
    IF subjects = <<>> \/ grades = <<>>
    THEN ValidationError("empty lists")
    ELSE LET n == Min(Len(subjects), Len(grades))
             bad == {i \in 1..n : ~GradeInRange(grades[i]) \/ Strip(subjects[i]) = <<>>}
         IN  IF bad = {} THEN NoExc
             ELSE LET i == CHOOSE j \in bad : \A k \in bad : j <= k
                  IN  IF ~GradeInRange(grades[i])
                      THEN ValidationError("grade not an integer in 0..100")
                      ELSE ValidationError("empty subject name")

\* _validate_grades: the exception it raises, or NoExc
ValidateGrades(subjects, grades) ==
    IF subjects = <<>> \/ grades = <<>>
    THEN ValidationError("empty lists")
    ELSE IF Len(subjects) # Len(grades)
    THEN ValidationError("length mismatch")
    ELSE LET bad == {i \in 1..Len(subjects) :
                        ~GradeInRange(grades[i]) \/ Strip(subjects[i]) = <<>>}
         IN  IF bad = {} THEN NoExc
             ELSE LET i == CHOOSE j \in bad : \A k \in bad : j <= k
                  IN  IF ~GradeInRange(grades[i])
                      THEN ValidationError("grade not an integer in 0..100")
                      ELSE ValidationError("empty subject name")

\* subjects.setter on object o: [exc, obj], obj the object after the call
SetSubjects(o, value) ==
    IF value = <<>> \/ \E i \in 1..Len(value) : Strip(value[i]) = <<>>
    THEN [exc |-> ValidationError("subjects must be non-empty strings"), obj |-> o]
    ELSE [exc |-> NoExc,
          obj |-> [o EXCEPT !.subjects = [i \in 1..Len(value) |-> Strip(value[i])]]]

\* grades.setter on object o: the value is stored before _validate_grades runs
SetGrades(o, value) ==
    IF value = <<>> \/ \E i \in 1..Len(value) : ~IsInt(value[i])
    THEN [exc |-> ValidationError("grades must be integers"), obj |-> o]
    ELSE [exc |-> ValidateGrades(o.subjects, value),
          obj |-> [o EXCEPT !.grades = value]]

\* AcademicPerformance.__init__: [exc, obj]; obj is NoObj when it raises
NewPerformance(subjects, grades) ==
    LET blank == [subjects |-> <<>>, grades |-> <<>>]
        s == SetSubjects(blank, subjects)
    IN  IF s.exc # NoExc THEN [exc |-> s.exc, obj |-> NoObj]
        ELSE LET g == SetGrades(s.obj, grades)
             IN  IF g.exc # NoExc THEN [exc |-> g.exc, obj |-> NoObj]
                 ELSE LET v == ValidateGrades(g.obj.subjects, g.obj.grades)
                      IN  IF v # NoExc THEN [exc |-> v, obj |-> NoObj]
                          ELSE [exc |-> NoExc, obj |-> g.obj]

(***************************************************************************)
(* Python dicts and the values of the export record.  A dict is the        *)
(* sequence of its <<key, value>> pairs in insertion order, keys unique; a *)
(* key is a string (a sequence of characters).  A value is tagged:         *)
(* "dict", "list", "str", "int" or "float" (a float counted in hundredths).*)
(***************************************************************************)
VDict(pairs) == [t |-> "dict", v |-> pairs]

VList(items) == [t |-> "list", v |-> items]

VStr(chars) == [t |-> "str", v |-> chars]

VInt(n) == [t |-> "int", v |-> n]

VFloat(hundredths) == [t |-> "float", v |-> hundredths]

DictKeys(d) == {d[i][1] : i \in 1..Len(d)}

DictGet(d, key) == d[CHOOSE i \in 1..Len(d) : d[i][1] = key][2]

\* d[key] = value: an existing key keeps its place and takes the new value
DictSet(d, key, value) ==
    IF key \in DictKeys(d)
    THEN [i \in 1..Len(d) |-> IF d[i][1] = key THEN <<key, value>> ELSE d[i]]
    ELSE Append(d, <<key, value>>)

\* dict(items)
RECURSIVE DictFromItems(_)
DictFromItems(items) ==
    IF items = <<>> THEN <<>>
    ELSE LET n == Len(items)
         IN  DictSet(DictFromItems(SubSeq(items, 1, n - 1)), items[n][1], items[n][2])

K_student == <<"s", "t", "u", "d", "e", "n", "t">>

K_full_name == <<"f", "u", "l", "l", "_", "n", "a", "m", "e">>

K_last_name == <<"l", "a", "s", "t", "_", "n", "a", "m", "e">>

K_first_name == <<"f", "i", "r", "s", "t", "_", "n", "a", "m", "e">>

K_middle_name == <<"m", "i", "d", "d", "l", "e", "_", "n", "a", "m", "e">>

K_group_number == <<"g", "r", "o", "u", "p", "_", "n", "u", "m", "b", "e", "r">>

K_birth_date == <<"b", "i", "r", "t", "h", "_", "d", "a", "t", "e">>

K_age == <<"a", "g", "e">>

K_address == <<"a", "d", "d", "r", "e", "s", "s">>

K_real_performance == <<"r", "e", "a", "l", "_", "p", "e", "r", "f", "o", "r", "m", "a", "n", "c", "e">>

K_subjects == <<"s", "u", "b", "j", "e", "c", "t", "s">>

K_grades == <<"g", "r", "a", "d", "e", "s">>

K_average_grade == <<"a", "v", "e", "r", "a", "g", "e", "_", "g", "r", "a", "d", "e">>

K_letter_grade == <<"l", "e", "t", "t", "e", "r", "_", "g", "r", "a", "d", "e">>

K_desired_performance == <<"d", "e", "s", "i", "r", "e", "d", "_", "p", "e", "r", "f", "o", "r", "m", "a", "n", "c", "e">>

K_desired_grades == <<"d", "e", "s", "i", "r", "e", "d", "_", "g", "r", "a", "d", "e", "s">>

K_desired_average == <<"d", "e", "s", "i", "r", "e", "d", "_", "a", "v", "e", "r", "a", "g", "e">>

K_improvement_needed == <<"i", "m", "p", "r", "o", "v", "e", "m", "e", "n", "t", "_", "n", "e", "e", "d", "e", "d">>

(***************************************************************************)
(* average_grade, get_letter_grade, age.                                   *)
(***************************************************************************)
RECURSIVE SumGrades(_)
SumGrades(grades) ==
    IF grades = <<>> THEN 0 ELSE grades[1][2] + SumGrades(Tail(grades))

\* sum() raises TypeError on an item that is no number
Summable(grades) == \A i \in 1..Len(grades) : IsInt(grades[i])

\* 2^k
RECURSIVE Pow2(_)
Pow2(k) == IF k = 0 THEN 1 ELSE 2 * Pow2(k - 1)

\* 2^k modulo m
RECURSIVE Pow2Mod(_, _)
Pow2Mod(k, m) == IF k = 0 THEN 1 % m ELSE (2 * Pow2Mod(k - 1, m)) % m

\* the binary exponent of the float m / 200, at least b: the largest e with
\* 2^e <= m / 200
RECURSIVE BinaryExponent(_, _)
BinaryExponent(m, b) ==
    LET reaches == IF b + 1 < 0 THEN m * Pow2(-(b + 1)) >= 200
                   ELSE m >= 200 * Pow2(b + 1)
    IN  IF reaches THEN BinaryExponent(m, b + 1) ELSE b

\* round(x, 2) of the float x nearest to m / 200 (m odd, halfway between two
\* hundredths) goes up: a float that is exactly the tie goes to the even
\* hundredth, any other float lies strictly on one side of the tie
TieRoundsUp(m) ==
    IF m % 25 = 0 THEN ((m - 1) \div 2) % 2 = 1
    ELSE LET scaled == 49 - BinaryExponent(m, -8)
             rest == ((m % 25) * Pow2Mod(scaled, 25)) % 25
         IN  2 * rest > 25

Round2_Truncates(num, den) == (100 * num) \div den

\* round(num / den, 2), in hundredths
Round2(num, den) ==
    LET q == (100 * num) \div den
        r == (100 * num) % den
    IN  IF 2 * r < den THEN q
        ELSE IF 2 * r > den THEN q + 1
        ELSE IF TieRoundsUp(2 * q + 1) THEN q + 1 ELSE q

\* average_grade(), in hundredths; the grades are summable
AverageGrade(grades) ==
    IF grades = <<>> THEN 0 ELSE Round2(SumGrades(grades), Len(grades))

LetterGrade_ExclusiveThresholds(avg) ==
    IF avg > 9000 THEN "A"
    ELSE IF avg > 8200 THEN "B"
    ELSE IF avg > 7500 THEN "C"
    ELSE IF avg > 6700 THEN "D"
    ELSE IF avg > 6000 THEN "E"
    ELSE "F"

\* get_letter_grade() of an average in hundredths
LetterGrade(avg) ==
    IF avg >= 9000 THEN "A"
    ELSE IF avg >= 8200 THEN "B"
    ELSE IF avg >= 7500 THEN "C"
    ELSE IF avg >= 6700 THEN "D"
    ELSE IF avg >= 6000 THEN "E"
    ELSE "F"

DaysPerYear == 365

\* Student.age on the day `now`: a day number n is day n % DaysPerYear of
\* year n \div DaysPerYear, and (month, day) orders as the day of the year does
Age(birth, now) ==
    LET years == (now \div DaysPerYear) - (birth \div DaysPerYear)
    IN  IF now % DaysPerYear < birth % DaysPerYear THEN years - 1 ELSE years

\* date.isoformat()
IsoFormat(d) == <<"iso", d[2]>>

(***************************************************************************)
(* StudentData: the aggregate holds references to the three objects.       *)
(***************************************************************************)
ObjRefs == {"student", "real", "desired"}

\* StudentData.__init__: the three isinstance checks, in order
NewStudentData(a1, a2, a3) ==
    IF a1 # "student" THEN ValidationError("student is no Student")
    ELSE IF a2 # "real" THEN ValidationError("real_performance is no RealPerformance")
    ELSE IF a3 # "desired"
    THEN ValidationError("desired_performance is no DesiredPerformance")
    ELSE NoExc

\* one entry per pair of zip(subjects, real grades, desired grades), stored
\* without looking whether the subject already has an entry
RECURSIVE ImprovementFrom(_, _, _, _, _)
ImprovementFrom(acc, subjects, real, desired, i) ==
    IF i > Min(Len(subjects), Min(Len(real), Len(desired))) THEN acc
    ELSE ImprovementFrom(
            DictSet(acc, subjects[i], VInt(Max(0, desired[i][2] - real[i][2]))),
            subjects, real, desired, i + 1)

\* _get_improvement_needed
GetImprovementNeeded(r, d) == ImprovementFrom(<<>>, r.subjects, r.grades, d.grades, 1)

\* evaluating the dict display of to_dict raises (TypeError) when a grade
\* list holds an item that is no number
ToDictFault(r, d) == ~Summable(r.grades) \/ ~Summable(d.grades)

\* the dict display of to_dict
ExportRecord(s, r, d, now) ==
    <<  <<K_student, VDict(<<
            <<K_full_name, VStr(s.last_name \o <<" ">> \o s.first_name \o <<" ">>
                                    \o s.middle_name)>>,
            <<K_last_name, VStr(s.last_name)>>,
            <<K_first_name, VStr(s.first_name)>>,
            <<K_middle_name, VStr(s.middle_name)>>,
            <<K_group_number, VStr(s.group_number)>>,
            <<K_birth_date, VStr(IsoFormat(s.birth_date))>>,
            <<K_age, VInt(Age(s.birth_date[2], now))>>,
            <<K_address, VStr(s.address)>> >>)>>,
        <<K_real_performance, VDict(<<
            <<K_subjects, VList(r.subjects)>>,
            <<K_grades, VList(r.grades)>>,
            <<K_average_grade, VFloat(AverageGrade(r.grades))>>,
            <<K_letter_grade, VStr(<<LetterGrade(AverageGrade(r.grades))>>)>> >>)>>,
        <<K_desired_performance, VDict(<<
            <<K_subjects, VList(d.subjects)>>,
            <<K_desired_grades, VList(d.grades)>>,
            <<K_desired_average, VFloat(AverageGrade(d.grades))>>,
            <<K_improvement_needed, VDict(GetImprovementNeeded(r, d))>> >>)>> >>

\* to_dict with an except clause that lets the fault through
ToDict_FaultEscapes(s, r, d, now) ==
    IF ToDictFault(r, d)
    THEN [exc |-> [type |-> "TypeError", msg |-> <<"unsupported operand type(s)">>],
          rec |-> NoData]
    ELSE [exc |-> NoExc, rec |-> ExportRecord(s, r, d, now)]

\* StudentData.to_dict: [exc, rec]; `except Exception` wraps every fault
ToDict(s, r, d, now) ==
    IF ToDictFault(r, d)
    THEN [exc |-> [type |-> "ValidationError",
                   msg |-> <<"conversion failed", "unsupported operand type(s)">>],
          rec |-> NoData]
    ELSE [exc |-> NoExc, rec |-> ExportRecord(s, r, d, now)]

(***************************************************************************)
(* The storage backends.  A markup element is [tag, text, children]; the   *)
(* file system maps a file name to "partial" (opened, so created or        *)
(* truncated, and not written to the end) or "complete"; a name outside    *)
(* its domain is no file.                                                  *)
(***************************************************************************)
Alnum ==
    {"a", "b", "c", "d", "e", "f", "g", "h", "i", "j", "k", "l", "m", "n", "o",
     "p", "q", "r", "s", "t", "u", "v", "w", "x", "y", "z",
     "0", "1", "2", "3", "4", "5", "6", "7", "8", "9"}

\* "".join(c if c.isalnum() else "_" for c in str(key)), dropping the
\* characters it should replace
Sanitize_DropsCharacters(key) ==
    LET keep == {i \in 1..Len(key) : key[i] \in Alnum}
        RECURSIVE Pick(_)
        Pick(i) == IF i > Len(key) THEN <<>>
                   ELSE (IF i \in keep THEN <<key[i]>> ELSE <<>>) \o Pick(i + 1)
    IN  Pick(1)

\* "".join(c if c.isalnum() else "_" for c in str(key))
Sanitize(key) == [i \in 1..Len(key) |-> IF key[i] \in Alnum THEN key[i] ELSE "_"]

\* str(item)
StrOf(item) == <<"str()", item>>

\* '; '.join(map(str, v))
Joined(items) == VStr(<<"joined by '; '">> \o [i \in 1..Len(items) |-> StrOf(items[i])])

RECURSIVE Flatten(_, _)
RECURSIVE FlattenItems(_, _, _)
\* the list `items` of _flatten_dict, from the i-th pair of d on
FlattenItems(d, parent_key, i) ==
    IF i > Len(d) THEN <<>>
    ELSE LET v == d[i][2]
             safe_key == Sanitize(d[i][1])
             new_key == IF parent_key # <<>>
                        THEN parent_key \o <<".">> \o safe_key
                        ELSE safe_key
             here == IF v.t = "dict" THEN Flatten(v.v, new_key)
                     ELSE IF v.t = "list" THEN << <<new_key, Joined(v.v)>> >>
                     ELSE << <<new_key, v>> >>
         IN  here \o FlattenItems(d, parent_key, i + 1)

\* CSVStorage._flatten_dict
Flatten(d, parent_key) == DictFromItems(FlattenItems(d, parent_key, 1))

ItemTag == <<"i", "t", "e", "m">>

RootTag == <<"s", "t", "u", "d", "e", "n", "t", "_", "d", "a", "t", "a">>

NoText == <<"no text">>

RECURSIVE DictToXml(_, _)
RECURSIVE XmlChildren(_, _)
\* the children _dict_to_xml appends, from the i-th pair of d on
XmlChildren(d, i) ==
    IF i > Len(d) THEN <<>>
    ELSE LET v == d[i][2]
             safe_key == Sanitize(d[i][1])
             child ==
                IF v.t = "dict" THEN DictToXml(safe_key, v.v)
                ELSE IF v.t = "list"
                THEN [tag |-> safe_key, text |-> NoText,
                      children |-> [j \in 1..Len(v.v) |->
                          [tag |-> ItemTag, text |-> StrOf(v.v[j]), children |-> <<>>]]]
                ELSE [tag |-> safe_key, text |-> StrOf(v), children |-> <<>>]
         IN  <<child>> \o XmlChildren(d, i + 1)

\* XMLStorage._dict_to_xml
DictToXml(tag, d) == [tag |-> tag, text |-> NoText, children |-> XmlChildren(d, 1)]

Backends == <<"JSON", "XML", "CSV">>

\* the extension each save() puts after the stem
Extension(b) ==
    CASE b = "JSON" -> "json"
      [] b = "XML" -> "xml"
      [] b = "CSV" -> "csv"

\* what a successful save() writes to the file
Payload(b, d) ==
    CASE b = "JSON" -> [fmt |-> "json", doc |-> d]
      [] b = "XML" -> [fmt |-> "xml", root |-> DictToXml(RootTag, d)]
      [] b = "CSV" ->
            LET flat == Flatten(d, <<>>)
            IN  [fmt |-> "csv",
                 header |-> [i \in 1..Len(flat) |-> flat[i][1]],
                 row |-> [i \in 1..Len(flat) |-> flat[i][2]]]

\* `not data`: None or an empty dict
IsEmptyRecord(d) == d = NoData \/ d = <<>>

IOOutcomes == {"ok", "open_fails", "write_fails"}

\* str(e) of the OSError that open() or a write raises
Cause(io) == IF io = "open_fails" THEN "cannot open" ELSE "cannot write"

\* what leaves save() when an OSError with message `cause` is raised inside
\* its try: JSONStorage's except clause names json.JSONEncodeError, which
\* does not exist, so evaluating the clause raises AttributeError
RaisedOnIOFailure(b, cause) ==
    CASE b = "JSON" ->
            [type |-> "AttributeError",
             msg |-> <<"module 'json' has no attribute 'JSONEncodeError'">>]
      [] b = "XML" -> [type |-> "IOError", msg |-> <<"XML save failed", cause>>]
      [] b = "CSV" -> [type |-> "IOError", msg |-> <<"CSV save failed", cause>>]

FileState(f, name) == IF name \in DOMAIN f THEN f[name] ELSE "absent"

WriteFile(f, name, state) ==
    [n \in DOMAIN f \cup {name} |-> IF n = name THEN state ELSE f[n]]

\* save() rejecting None only
Save_OnlyNoneRejected(b, d, stem, io, f) ==
    IF d = NoData
    THEN [exc |-> ValidationError("no data to save"), fs |-> f, payload |-> NoData]
    ELSE LET name == stem \o "." \o Extension(b)
         IN  IF io = "open_fails"
             THEN [exc |-> RaisedOnIOFailure(b, Cause(io)), fs |-> f,
                   payload |-> NoData]
             ELSE IF io = "write_fails"
             THEN [exc |-> RaisedOnIOFailure(b, Cause(io)),
                   fs |-> WriteFile(f, name, "partial"), payload |-> NoData]
             ELSE [exc |-> NoExc, fs |-> WriteFile(f, name, "complete"),
                   payload |-> Payload(b, d)]

\* JSONStorage.save / XMLStorage.save / CSVStorage.save of record d under
\* stem, on file system f, when the I/O goes as `io`: [exc, fs, payload]
Save(b, d, stem, io, f) ==
    IF IsEmptyRecord(d)
    THEN [exc |-> ValidationError("no data to save"), fs |-> f, payload |-> NoData]
    ELSE LET name == stem \o "." \o Extension(b)
         IN  IF io = "open_fails"
             THEN [exc |-> RaisedOnIOFailure(b, Cause(io)), fs |-> f,
                   payload |-> NoData]
             ELSE IF io = "write_fails"
             THEN [exc |-> RaisedOnIOFailure(b, Cause(io)),
                   fs |-> WriteFile(f, name, "partial"), payload |-> NoData]
             ELSE [exc |-> NoExc, fs |-> WriteFile(f, name, "complete"),
                   payload |-> Payload(b, d)]

(***************************************************************************)
(* The inputs of the AcademicPerformance specification.                    *)
(***************************************************************************)
PerfSubjectInputs == {<<>>, <<" ">>, <<" ", "a">>}

PerfGradeInputs == {PyInt(-1), PyInt(0), PyInt(100), PyInt(101), PyFloat(50)}

PerfSubjectLists == SeqsUpTo(PerfSubjectInputs, MaxLen)

PerfGradeLists == SeqsUpTo(PerfGradeInputs, MaxLen)

\* the state before any call, with Student object s (or none) and stem f
InitWith(s, f) ==
    /\ student = s
    /\ today = 0
    /\ perf = [r \in Roles |-> NoObj]
    /\ last = [op |-> "none"]
    /\ data = NoData
    /\ fs = [n \in {} |-> "absent"]
    /\ pc = "create_student"
    /\ saved_files = <<>>
    /\ calls = <<>>
    /\ aggregate = NoObj
    /\ filename = f

InitCommon == InitWith(NoObj, "")

\* RealPerformance(subjects, grades) / DesiredPerformance(subjects, grades);
\* one construction, of one object, is under test in a behaviour
PerfConstruct(role, subjects, grades) ==
    /\ last.op = "none"
    /\ \A r \in Roles : perf[r] = NoObj
    /\ LET res == NewPerformance(subjects, grades)
       IN  /\ perf' = [perf EXCEPT ![role] = res.obj]
           /\ last' = [op |-> "init", role |-> role, subjects |-> subjects,
                       grades |-> grades, exc |-> res.exc]
    /\ UNCHANGED <<student, today, data, fs, pc, saved_files, calls, aggregate, filename>>

\* obj.subjects = value
PerfSetSubjects(role, value) ==
    /\ perf[role] # NoObj
    /\ LET res == SetSubjects(perf[role], value)
       IN  /\ perf' = [perf EXCEPT ![role] = res.obj]
           /\ last' = [op |-> "set_subjects", role |-> role, exc |-> res.exc]
    /\ UNCHANGED <<student, today, data, fs, pc, saved_files, calls, aggregate, filename>>

\* obj.grades = value
PerfSetGrades(role, value) ==
    /\ perf[role] # NoObj
    /\ LET res == SetGrades(perf[role], value)
       IN  /\ perf' = [perf EXCEPT ![role] = res.obj]
           /\ last' = [op |-> "set_grades", role |-> role, exc |-> res.exc]
    /\ UNCHANGED <<student, today, data, fs, pc, saved_files, calls, aggregate, filename>>

NextPerf ==
    \/ \E r \in Roles, s \in PerfSubjectLists, g \in PerfGradeLists :
          PerfConstruct(r, s, g)
    \/ \E r \in Roles, s \in PerfSubjectLists : PerfSetSubjects(r, s)
    \/ \E r \in Roles, g \in PerfGradeLists : PerfSetGrades(r, g)

SpecPerf == InitCommon /\ [][NextPerf]_vars

(***************************************************************************)
(* The specification of average_grade() and get_letter_grade(): one        *)
(* performance object is constructed from a grade list and then asked for  *)
(* its average and its letter.  A grade list is a run of one grade,        *)
(* optionally followed by one other grade: the runs are long enough for an *)
(* average to fall one hundredth below a threshold (66 times 90, then 89,  *)
(* average 89.99).                                                         *)
(***************************************************************************)
MaxRun == 66

\* the thresholds of get_letter_grade, the grade below each, and the ends
\* of the range
GradeValues == {0, 59, 60, 66, 67, 74, 75, 81, 82, 89, 90, 100}

RECURSIVE Repeat(_, _)
Repeat(x, n) == IF n = 0 THEN <<>> ELSE <<x>> \o Repeat(x, n - 1)

\* the grade list [85, 90, 88] of the documentation
GradeExample == <<PyInt(85), PyInt(90), PyInt(88)>>

\* the grades that may follow a run of g: the grade below it, and the top one
GradeTails(g) == {Max(g - 1, 0), 100}

GradeLists ==
    {Repeat(PyInt(g), n) : g \in GradeValues, n \in 0..MaxRun}
    \cup UNION {{Append(Repeat(PyInt(g), n), PyInt(h)) :
                     h \in GradeTails(g), n \in 0..MaxRun} : g \in GradeValues}
    \cup {GradeExample}

\* a subject list as long as the grade list
GradeSubjects(grades) == [i \in 1..Len(grades) |-> <<"a">>]

\* RealPerformance(subjects, grades) / DesiredPerformance(subjects, grades)
GradeConstruct(role, grades) ==
    /\ last.op = "none"
    /\ LET res == NewPerformance(GradeSubjects(grades), grades)
       IN  /\ perf' = [perf EXCEPT ![role] = res.obj]
           /\ last' = [op |-> "init", role |-> role, exc |-> res.exc]
    /\ UNCHANGED <<student, today, data, fs, pc, saved_files, calls, aggregate, filename>>

\* obj.average_grade(); the result is in hundredths
GradeAverage(role) ==
    /\ perf[role] # NoObj
    /\ last' = [op |-> "average_grade", role |-> role,
                result |-> AverageGrade(perf[role].grades)]
    /\ UNCHANGED <<student, today, perf, data, fs, pc, saved_files, calls, aggregate,
                   filename>>

\* obj.get_letter_grade(), of a RealPerformance
GradeLetter ==
    /\ perf["real"] # NoObj
    /\ last' = [op |-> "get_letter_grade", role |-> "real",
                result |-> LetterGrade(AverageGrade(perf["real"].grades))]
    /\ UNCHANGED <<student, today, perf, data, fs, pc, saved_files, calls, aggregate,
                   filename>>

NextGrade ==
    \/ \E r \in Roles, g \in GradeLists : GradeConstruct(r, g)
    \/ \E r \in Roles : GradeAverage(r)
    \/ GradeLetter

SpecGrade == InitCommon /\ [][NextGrade]_vars

(***************************************************************************)
(* The Student specification: one construction, then any setter calls,     *)
(* while the calendar advances.                                            *)
(***************************************************************************)
MaxDay == 2        \* the calendar runs over the days 0..MaxDay

StringInputs == {<<>>, <<" ">>, <<" ", "a", " ">>, <<"b">>}

\* the day before, the day itself, the day after, and a value that is no date
DateInputs(now) == {PyDate(now - 1), PyDate(now), PyDate(now + 1), PyStr(0)}

StudentConstruct(names, birth_date, address) ==
    /\ last.op = "none"
    /\ student = NoObj
    /\ LET res == NewStudent(names, birth_date, address, today)
       IN  /\ student' = res.obj
           /\ last' = [op |-> "init", names |-> names, value |-> birth_date,
                       now |-> today, exc |-> res.exc]
    /\ UNCHANGED <<today, perf, data, fs, pc, saved_files, calls, aggregate, filename>>

\* student.last_name = value, and the three setters like it
StudentSetName(k, value) ==
    /\ student # NoObj
    /\ LET res == SetName(student, NameFields[k], value)
       IN  /\ student' = res.obj
           /\ last' = [op |-> "set_name", field |-> NameFields[k], exc |-> res.exc]
    /\ UNCHANGED <<today, perf, data, fs, pc, saved_files, calls, aggregate, filename>>

\* student.birth_date = value
StudentSetBirthDate(value) ==
    /\ student # NoObj
    /\ LET res == SetBirthDate(student, value, today)
       IN  /\ student' = res.obj
           /\ last' = [op |-> "set_birth_date", value |-> value, now |-> today,
                       exc |-> res.exc]
    /\ UNCHANGED <<today, perf, data, fs, pc, saved_files, calls, aggregate, filename>>

\* student.address = value
StudentSetAddress(value) ==
    /\ student # NoObj
    /\ LET res == SetAddress(student, value)
       IN  /\ student' = res.obj
           /\ last' = [op |-> "set_address", exc |-> res.exc]
    /\ UNCHANGED <<today, perf, data, fs, pc, saved_files, calls, aggregate, filename>>

\* midnight: date.today() moves on
Tick ==
    /\ today < MaxDay
    /\ today' = today + 1
    /\ UNCHANGED <<student, perf, last, data, fs, pc, saved_files, calls, aggregate, filename>>

NextStudent ==
    \/ \E names \in [1..4 -> StringInputs], b \in DateInputs(today),
          a \in StringInputs : StudentConstruct(names, b, a)
    \/ \E k \in 1..4, v \in StringInputs : StudentSetName(k, v)
    \/ \E b \in DateInputs(today) : StudentSetBirthDate(b)
    \/ \E a \in StringInputs : StudentSetAddress(a)
    \/ Tick

SpecStudent == InitCommon /\ [][NextStudent]_vars

(***************************************************************************)
(* The export specification: a Student exists; the two performance objects *)
(* are constructed, the caller may append to a grade list it passed in     *)
(* (the grades setter stores the caller's list itself, not a copy), the    *)
(* aggregate is built and exported.                                        *)
(***************************************************************************)
ExportSubjectInputs == {<<"a", "-", "b">>, <<"a", " ", "b">>}

ExportGradeInputs == {PyInt(50), PyInt(80)}

ExportStudent ==
    NewStudent(<<<<"a">>, <<"b">>, <<"a">>, <<"b">>>>, PyDate(0), <<"a", " ", "b">>, 0).obj

InitExport == InitWith(ExportStudent, "")

ExportConstruct(role, subjects, grades) ==
    /\ perf[role] = NoObj
    /\ LET res == NewPerformance(subjects, grades)
       IN  /\ perf' = [perf EXCEPT ![role] = res.obj]
           /\ last' = [op |-> "init", role |-> role, exc |-> res.exc]
    /\ UNCHANGED <<student, today, data, fs, pc, saved_files, calls, aggregate, filename>>

\* the caller appends an item to the list object it gave as the grades
ExportAliasAppend(role, item) ==
    /\ perf[role] # NoObj
    /\ Len(perf[role].grades) < MaxLen
    /\ data = NoData
    /\ perf' = [perf EXCEPT ![role].grades = Append(@, item)]
    /\ last' = [op |-> "alias_append", role |-> role]
    /\ UNCHANGED <<student, today, data, fs, pc, saved_files, calls, aggregate, filename>>

\* StudentData(a1, a2, a3), each argument one of the existing objects
ExportBuild(a1, a2, a3) ==
    /\ aggregate = NoObj
    /\ \A r \in Roles : perf[r] # NoObj
    /\ LET exc == NewStudentData(a1, a2, a3)
       IN  /\ aggregate' = IF exc = NoExc THEN [built |-> TRUE] ELSE NoObj
           /\ last' = [op |-> "StudentData", exc |-> exc]
    /\ UNCHANGED <<student, today, perf, data, fs, pc, saved_files, calls, filename>>

\* student_data.to_dict()
ExportToDict ==
    /\ aggregate # NoObj
    /\ LET res == ToDict(student, perf["real"], perf["desired"], today)
       IN  /\ data' = res.rec
           /\ last' = [op |-> "to_dict", exc |-> res.exc]
    /\ UNCHANGED <<student, today, perf, fs, pc, saved_files, calls, aggregate, filename>>

NextExport ==
    \/ \E r \in Roles, s \in SeqsUpTo(ExportSubjectInputs, MaxLen),
          g \in SeqsUpTo(ExportGradeInputs, MaxLen) : ExportConstruct(r, s, g)
    \/ \E r \in Roles : ExportAliasAppend(r, PyStr(0))
    \/ \E a1 \in ObjRefs, a2 \in ObjRefs, a3 \in ObjRefs : ExportBuild(a1, a2, a3)
    \/ ExportToDict

SpecExport == InitExport /\ [][NextExport]_vars

(***************************************************************************)
(* The storage specification: save() calls of the three backends, with     *)
(* None, an empty dict or an export record, under either of two stems.     *)
(***************************************************************************)
SaveRecords ==
    <<NoData, <<>>,
      ToDict(ExportStudent,
             NewPerformance(<< <<"a", "-", "b">> >>, <<PyInt(50)>>).obj,
             NewPerformance(<< <<"a", "-", "b">> >>, <<PyInt(80)>>).obj, 0).rec>>

Stems == {"s", "t"}

\* the caller saves under one stem
InitSave == \E stem \in Stems : InitWith(NoObj, stem)

SaveCall(b, d, io) ==
    /\ LET stem == filename
           res == Save(b, d, stem, io, fs)
       IN  /\ fs' = res.fs
           /\ last' = [op |-> "save", backend |-> b, record |-> d, stem |-> stem,
                       io |-> io, exc |-> res.exc, payload |-> res.payload]
    /\ UNCHANGED <<student, today, perf, data, pc, saved_files, calls, aggregate,
                   filename>>

NextSave ==
    \E i \in 1..Len(Backends), k \in 1..Len(SaveRecords), io \in IOOutcomes :
       SaveCall(Backends[i], SaveRecords[k], io)

SpecSave == InitSave /\ [][NextSave]_vars

(***************************************************************************)
(* The orchestration: main() and save_student_data().  The prompt loops of *)
(* create_student and create_performance hand the constructors stripped    *)
(* input; a constructor that raises ValidationError is prompted again.     *)
(***************************************************************************)
MainNameInputs == {<<" ">>, <<"a", " ">>}

MainPrefixInputs == {<<>>, <<"p">>}

\* the grades typed for the real and for the desired performance
MainGradeInputs(role) == IF role = "real" THEN {PyInt(50)} ELSE {PyInt(50), PyInt(80)}

\* in main's run a save either goes through or cannot open its file
MainIOOutcomes == {"ok", "open_fails"}

\* the typed prefix as a file name stem: "student_data" when it is empty
Prefix(typed) == IF Strip(typed) = <<>> THEN "student_data" ELSE "p"

\* format_name.lower()
Lower(format_name) ==
    CASE format_name = "JSON" -> "json"
      [] format_name = "XML" -> "xml"
      [] format_name = "CSV" -> "csv"

\* main's check of the desired performance, comparing the lengths only
MainDesiredAccepted_LengthOnly(real, desired) ==
    Len(desired.subjects) = Len(real.subjects)

\* main's check of the desired performance against the real one
MainDesiredAccepted(real, desired) ==
    /\ Len(desired.subjects) = Len(real.subjects)
    /\ desired.subjects = real.subjects

\* an inner handler `except IOError` in save_student_data's loop
InnerHandlerCatches_OnlyIOError(exc) == exc.type = "IOError"

\* `except Exception` around storage.save catches every exception save raises
InnerHandlerCatches(exc) ==
    exc.type \in {"ValidationError", "IOError", "AttributeError", "TypeError"}

\* create_student(): one round of its prompt loop
MainCreateStudent(names, birth_date, address) ==
    /\ pc = "create_student"
    /\ LET res == NewStudent([k \in 1..4 |-> Strip(names[k])], birth_date,
                             Strip(address), today)
       IN  /\ student' = res.obj
           /\ pc' = IF res.exc = NoExc THEN "create_real" ELSE "create_student"
           /\ last' = [op |-> "create_student", exc |-> res.exc]
    /\ UNCHANGED <<today, perf, data, fs, saved_files, calls, aggregate, filename>>

\* create_performance(): one round of its prompt loop, and for the desired
\* performance main's comparison with the real one
MainCreatePerformance(role, subjects, grades) ==
    /\ \/ pc = "create_real" /\ role = "real"
       \/ pc = "create_desired" /\ role = "desired"
    /\ LET res == NewPerformance([i \in 1..Len(subjects) |-> Strip(subjects[i])],
                                 grades)
       IN  /\ perf' = IF res.exc = NoExc THEN [perf EXCEPT ![role] = res.obj]
                      ELSE perf
           /\ pc' = IF res.exc # NoExc THEN pc
                    ELSE IF role = "real" THEN "create_desired"
                    ELSE IF MainDesiredAccepted(perf["real"], res.obj) THEN "build"
                    ELSE "create_desired"
           /\ last' = [op |-> "create_performance", role |-> role, exc |-> res.exc]
    /\ UNCHANGED <<student, today, data, fs, saved_files, calls, aggregate, filename>>

\* student_data = StudentData(student, real_performance, desired_performance)
MainBuild ==
    /\ pc = "build"
    /\ LET exc == NewStudentData("student", "real", "desired")
       IN  /\ aggregate' = IF exc = NoExc THEN [built |-> TRUE] ELSE NoObj
           /\ pc' = IF exc = NoExc THEN "display" ELSE "exit"
           /\ last' = [op |-> "StudentData", exc |-> exc]
    /\ UNCHANGED <<student, today, perf, data, fs, saved_files, calls, filename>>

\* display_student_info(student_data), then the prompt for the prefix
MainDisplay(typed) ==
    /\ pc = "display"
    /\ LET res == ToDict(student, perf["real"], perf["desired"], today)
       IN  /\ pc' = IF res.exc = NoExc THEN "save" ELSE "exit"
           /\ filename' = IF res.exc = NoExc THEN Prefix(typed) ELSE filename
           /\ last' = [op |-> "display", exc |-> res.exc]
    /\ UNCHANGED <<student, today, perf, data, fs, saved_files, calls, aggregate>>

\* save_student_data up to its loop: data = student_data.to_dict()
MainSaveBegin ==
    /\ pc = "save"
    /\ LET res == ToDict(student, perf["real"], perf["desired"], today)
       IN  /\ data' = res.rec
           /\ pc' = IF res.exc = NoExc THEN "save_loop" ELSE "report"
           /\ last' = [op |-> "to_dict", exc |-> res.exc]
    /\ saved_files' = <<>>
    /\ calls' = <<>>
    /\ UNCHANGED <<student, today, perf, fs, aggregate, filename>>

\* one iteration of the loop over the storages
MainSaveBackend(io) ==
    /\ pc = "save_loop"
    /\ LET format_name == Backends[Len(calls) + 1]
           stem == filename \o "_" \o Lower(format_name)
           res == Save(format_name, data, stem, io, fs)
           caught == res.exc # NoExc /\ InnerHandlerCatches(res.exc)
           escaped == res.exc # NoExc /\ ~InnerHandlerCatches(res.exc)
       IN  /\ fs' = res.fs
           /\ calls' = Append(calls, [backend |-> format_name, exc |-> res.exc])
           /\ saved_files' =
                 IF res.exc = NoExc
                 THEN Append(saved_files, stem \o "." \o Lower(format_name))
                 ELSE IF caught THEN saved_files
                 ELSE <<>>
           /\ pc' = IF escaped \/ Len(calls) + 1 = Len(Backends) THEN "report"
                    ELSE "save_loop"
           /\ last' = [op |-> "save", backend |-> format_name, io |-> io,
                       exc |-> res.exc, payload |-> res.payload]
    /\ UNCHANGED <<student, today, perf, data, aggregate, filename>>

\* main prints the saved file names
MainReport ==
    /\ pc = "report"
    /\ pc' = "done"
    /\ last' = [op |-> "report"]
    /\ UNCHANGED <<student, today, perf, data, fs, saved_files, calls, aggregate,
                   filename>>

NextMain ==
    \/ \E names \in [1..4 -> MainNameInputs], k \in {0, 1} :
          MainCreateStudent(names, PyDate(today + k), <<>>)
    \/ \E role \in Roles, n \in 1..MaxLen :
          \E s \in [1..n -> ExportSubjectInputs], g \in [1..n -> MainGradeInputs(role)] :
             MainCreatePerformance(role, s, g)
    \/ MainBuild
    \/ \E typed \in MainPrefixInputs : MainDisplay(typed)
    \/ MainSaveBegin
    \/ \E io \in MainIOOutcomes : MainSaveBackend(io)
    \/ MainReport

SpecMain == InitCommon /\ [][NextMain]_vars

(***************************************************************************)
(* C1: every constructed AcademicPerformance has, in every state reachable *)
(* by later subjects / grades assignments, as many subjects as grades, and *)
(* at least one.  The code breaks it: the subjects setter never compares   *)
(* the lengths, and the grades setter stores the value before validating.  *)
(***************************************************************************)
C1_CountInvariant ==
    \A r \in Roles :
        perf[r] # NoObj =>
            /\ Len(perf[r].subjects) = Len(perf[r].grades)
            /\ Len(perf[r].subjects) >= 1

(***************************************************************************)
(* C5: constructing a performance object raises ValidationError and yields *)
(* no object exactly when a list is empty, the lengths differ, a grade is  *)
(* not an integer in [0,100] or a subject is empty or whitespace-only; it  *)
(* succeeds for every other input.                                         *)
(***************************************************************************)
C5_IsBlank(s) == \A i \in 1..Len(s) : s[i] \in Whitespace

C5_InvalidInput(subjects, grades) ==
    \/ subjects = <<>>
    \/ grades = <<>>
    \/ Len(subjects) # Len(grades)
    \/ \E i \in 1..Len(grades) :
          ~(grades[i][1] = "int" /\ grades[i][2] \in 0..100)
    \/ \E i \in 1..Len(subjects) : C5_IsBlank(subjects[i])

\* C5: construction raises ValidationError, and yields no object, exactly on
\* an invalid input
C5_ConstructionValidated ==
    last.op = "init" =>
        IF C5_InvalidInput(last.subjects, last.grades)
        THEN last.exc.type = "ValidationError" /\ perf[last.role] = NoObj
        ELSE last.exc = NoExc /\ perf[last.role] # NoObj

C5_Witness ==
    /\ last.op = "init"
    /\ last.subjects # <<>> /\ last.grades # <<>>
    /\ Len(last.subjects) # Len(last.grades)
    /\ \A i \in 1..Len(last.grades) : GradeInRange(last.grades[i])
    /\ \A i \in 1..Len(last.subjects) : ~C5_IsBlank(last.subjects[i])
    /\ last.exc.type = "ValidationError"
    /\ perf[last.role] = NoObj

(***************************************************************************)
(* C10: in every state of a constructed Student, after any accepted or     *)
(* rejected setter calls, the three names and the group identifier are     *)
(* non-empty and carry no leading or trailing whitespace, and the birth    *)
(* date is not later than the current date; a birth date equal to today is *)
(* accepted, and one a day in the future is rejected with ValidationError. *)
(***************************************************************************)
C10_Trimmed(s) ==
    /\ s # <<>>
    /\ s[1] \notin Whitespace
    /\ s[Len(s)] \notin Whitespace

\* C10: the Student invariant, and the birth date boundary at today
C10_StudentInvariant ==
    /\ student # NoObj =>
          /\ \A k \in 1..4 : C10_Trimmed(student[NameFields[k]])
          /\ student.birth_date[1] = "date"
          /\ student.birth_date[2] <= today
    /\ (last.op = "set_birth_date" /\ last.value = PyDate(last.now)) =>
          /\ last.exc = NoExc
          /\ student.birth_date = last.value
    /\ (last.op \in {"set_birth_date", "init"} /\ last.value = PyDate(last.now + 1)) =>
          last.exc.type = "ValidationError"
    /\ (last.op = "init" /\ last.value = PyDate(last.now)
            /\ \A k \in 1..4 : \E i \in 1..Len(last.names[k]) :
                  last.names[k][i] \notin Whitespace) =>
          /\ last.exc = NoExc
          /\ student # NoObj

C10_Witness ==
    /\ student # NoObj
    /\ last.op = "set_birth_date"
    /\ last.value = PyDate(last.now + 1)
    /\ last.exc.type = "ValidationError"
    /\ today > last.now
    /\ student.birth_date[2] < today

(***************************************************************************)
(* C4: for a RealPerformance and a DesiredPerformance with identical       *)
(* subject sequences, the exported improvement_needed has, for every       *)
(* position i, an entry for subject i whose value is                       *)
(* max(0, desired_grade[i] - real_grade[i]), and no value is negative.     *)
(* The code keys the mapping by subject name and accepts a subject list    *)
(* that names a subject twice: the later position overwrites the earlier.  *)
(***************************************************************************)
C4_Improvement ==
    LET r == perf["real"]
        d == perf["desired"]
        imp == DictGet(DictGet(data, K_desired_performance).v, K_improvement_needed).v
    IN  (data # NoData /\ r.subjects = d.subjects) =>
            /\ \A i \in 1..Len(r.subjects) :
                  /\ r.subjects[i] \in DictKeys(imp)
                  /\ DictGet(imp, r.subjects[i]).v
                        = (IF d.grades[i][2] - r.grades[i][2] > 0
                           THEN d.grades[i][2] - r.grades[i][2] ELSE 0)
            /\ \A j \in 1..Len(imp) : imp[j][2].v >= 0

(***************************************************************************)
(* C7: to_dict is all-or-nothing: a call either returns a record with the  *)
(* three sections student, real_performance and desired_performance, each  *)
(* with all its fields, or raises ValidationError and returns nothing; an  *)
(* internal fault is wrapped as ValidationError.                           *)
(***************************************************************************)
C7_Sections ==
    <<  <<K_student, <<K_full_name, K_last_name, K_first_name, K_middle_name,
                       K_group_number, K_birth_date, K_age, K_address>> >>,
        <<K_real_performance, <<K_subjects, K_grades, K_average_grade,
                                K_letter_grade>> >>,
        <<K_desired_performance, <<K_subjects, K_desired_grades, K_desired_average,
                                   K_improvement_needed>> >> >>

C7_Complete(rec) ==
    /\ Len(rec) = Len(C7_Sections)
    /\ \A i \in 1..Len(C7_Sections) :
          /\ rec[i][1] = C7_Sections[i][1]
          /\ rec[i][2].t = "dict"
          /\ [j \in 1..Len(rec[i][2].v) |-> rec[i][2].v[j][1]] = C7_Sections[i][2]

\* C7: a to_dict call returns the complete record or raises ValidationError
C7_AllOrNothing ==
    last.op = "to_dict" =>
        \/ last.exc = NoExc /\ data # NoData /\ C7_Complete(data)
        \/ last.exc.type = "ValidationError" /\ data = NoData

C7_Witness ==
    /\ last.op = "to_dict"
    /\ last.exc.type = "ValidationError"
    /\ ~Summable(perf["desired"].grades)
    /\ data = NoData

(***************************************************************************)
(* C2: for each backend, when opening or writing the file fails during a   *)
(* save of a non-empty record, the call raises an I/O error whose message  *)
(* carries the cause's message, and no other exception type.  JSONStorage  *)
(* raises AttributeError instead.                                          *)
(***************************************************************************)
C2_UniformIOError ==
    (last.op = "save" /\ ~IsEmptyRecord(last.record) /\ last.io # "ok") =>
        /\ last.exc.type = "IOError"
        /\ \E i \in 1..Len(last.exc.msg) : last.exc.msg[i] = Cause(last.io)

(***************************************************************************)
(* C8: a save of an empty or null record raises a validation error and     *)
(* leaves the file system as it was (no file is created or truncated); a   *)
(* successful save of a non-empty record writes exactly one file, named    *)
(* <stem>.json, <stem>.xml or <stem>.csv after its backend.                *)
(***************************************************************************)
C8_FileName(b, stem) ==
    IF b = "JSON" THEN stem \o ".json"
    ELSE IF b = "XML" THEN stem \o ".xml"
    ELSE stem \o ".csv"

C8_SaveStep ==
    last'.op = "save" =>
        IF last'.record = NoData \/ last'.record = <<>>
        THEN last'.exc.type = "ValidationError" /\ fs' = fs
        ELSE last'.exc = NoExc =>
                LET name == C8_FileName(last'.backend, last'.stem)
                IN  /\ DOMAIN fs' = DOMAIN fs \cup {name}
                    /\ fs'[name] = "complete"
                    /\ \A n \in DOMAIN fs : n # name => fs'[n] = fs[n]

\* C8: every save() step keeps the contract of C8_SaveStep
C8_SaveContract == [][C8_SaveStep]_vars

C8_Witness ==
    /\ last.op = "save"
    /\ last.record = <<>>
    /\ last.exc.type = "ValidationError"
    /\ last.stem \o "." \o Extension(last.backend) \in DOMAIN fs
    /\ \E n \in DOMAIN fs : fs[n] = "complete"

(***************************************************************************)
(* C3: save_student_data calls save on each of the three backends exactly  *)
(* once, whatever an earlier backend raised, and returns exactly the file  *)
(* names of the backends whose save returned without raising.              *)
(***************************************************************************)
C3_CallsOf(b) == {i \in 1..Len(calls) : calls[i].backend = b}

C3_Saved(b) == \E i \in C3_CallsOf(b) : calls[i].exc = NoExc

C3_Name(b) ==
    IF b = "JSON" THEN filename \o "_json.json"
    ELSE IF b = "XML" THEN filename \o "_xml.xml"
    ELSE filename \o "_csv.csv"

\* C3: each backend is called once and the returned list names the backends
\* whose save returned
C3_EveryBackendOnce ==
    /\ \A b \in {"JSON", "XML", "CSV"} : Cardinality(C3_CallsOf(b)) <= 1
    /\ pc \in {"report", "done"} =>
          /\ \A b \in {"JSON", "XML", "CSV"} : Cardinality(C3_CallsOf(b)) = 1
          /\ {saved_files[i] : i \in 1..Len(saved_files)}
                = {C3_Name(b) : b \in {b \in {"JSON", "XML", "CSV"} : C3_Saved(b)}}
          /\ Len(saved_files) = Cardinality({b \in {"JSON", "XML", "CSV"} : C3_Saved(b)})

C3_Witness ==
    /\ pc = "done"
    /\ Len(calls) = 3
    /\ calls[1].exc # NoExc
    /\ calls[2].exc # NoExc
    /\ calls[3].exc = NoExc
    /\ saved_files = <<C3_Name("CSV")>>

(***************************************************************************)
(* C6: main() builds the StudentData aggregate (and so displays and        *)
(* exports it) only when the desired subject sequence equals the real one, *)
(* element by element; a desired input that does not match is rejected and *)
(* prompted for again before the aggregate is built.                       *)
(***************************************************************************)
C6_SameSubjects ==
    /\ Len(perf["desired"].subjects) = Len(perf["real"].subjects)
    /\ \A i \in 1..Len(perf["real"].subjects) :
          perf["desired"].subjects[i] = perf["real"].subjects[i]

\* C6: the aggregate exists only with equal subject sequences; a desired
\* object that does not match exists only while main() still prompts for it
C6_AggregateOnlyOnMatch ==
    /\ (aggregate # NoObj \/ pc \in {"build", "display", "save", "save_loop",
                                     "report", "done"}) => C6_SameSubjects
    /\ (perf["desired"] # NoObj /\ ~C6_SameSubjects) =>
          pc = "create_desired" /\ aggregate = NoObj

C6_Witness ==
    /\ aggregate # NoObj
    /\ Len(perf["real"].subjects) = 2
    /\ perf["real"].subjects[1] # perf["real"].subjects[2]
    /\ C6_SameSubjects

(***************************************************************************)
(* C9: every key of the export record, at any nesting level, appears in    *)
(* the tabular backend's output as a segment of a dotted column name, and  *)
(* in the markup backend's element tree as an element tag at the same      *)
(* nesting level, in both with every non-alphanumeric character replaced   *)
(* by an underscore.                                                       *)
(***************************************************************************)
RECURSIVE C9_KeyPaths(_)
C9_KeyPaths(d) ==
    UNION { {<<d[i][1]>>} \cup
            (IF d[i][2].t = "dict"
             THEN {<<d[i][1]>> \o p : p \in C9_KeyPaths(d[i][2].v)}
             ELSE {}) : i \in 1..Len(d) }

C9_Sanitized(key) ==
    [i \in 1..Len(key) |-> IF key[i] \in Alnum THEN key[i] ELSE "_"]

\* the segments of a dotted column name
RECURSIVE C9_Split(_)
C9_Split(name) ==
    IF \A i \in 1..Len(name) : name[i] # "." THEN <<name>>
    ELSE LET dot == CHOOSE i \in 1..Len(name) :
                        name[i] = "." /\ \A j \in 1..(i - 1) : name[j] # "."
         IN  <<SubSeq(name, 1, dot - 1)>> \o C9_Split(SubSeq(name, dot + 1, Len(name)))

C9_InColumns(header, path) ==
    \E j \in 1..Len(header) :
        LET segs == C9_Split(header[j])
        IN  /\ Len(segs) >= Len(path)
            /\ \A m \in 1..Len(path) : segs[m] = C9_Sanitized(path[m])

RECURSIVE C9_InTree(_, _)
C9_InTree(elem, path) ==
    path = <<>> \/
    \E c \in 1..Len(elem.children) :
        /\ elem.children[c].tag = C9_Sanitized(Head(path))
        /\ C9_InTree(elem.children[c], Tail(path))

\* C9: after a successful CSV or XML save, every key path of the record is
\* in the columns, or in the element tree
C9_KeysKept ==
    (last.op = "save" /\ last.exc = NoExc) =>
        /\ last.backend = "CSV" =>
              \A path \in C9_KeyPaths(data) : C9_InColumns(last.payload.header, path)
        /\ last.backend = "XML" =>
              \A path \in C9_KeyPaths(data) : C9_InTree(last.payload.root, path)

C9_Witness ==
    /\ last.op = "save" /\ last.exc = NoExc /\ last.backend = "CSV"
    /\ Len(calls) = 3 /\ calls[2].exc = NoExc
    /\ <<K_desired_performance, K_improvement_needed, <<"a", " ", "b">> >>
          \in C9_KeyPaths(data)
    /\ \E j \in 1..Len(last.payload.header) :
          /\ Len(C9_Split(last.payload.header[j])) = 3
          /\ C9_Split(last.payload.header[j])[3] = <<"a", "_", "b">>


(***************************************************************************)
(* C12: for every valid grade sequence of one or more integers in 0..100,  *)
(* average_grade() of RealPerformance and of DesiredPerformance is the     *)
(* arithmetic mean of the grades rounded to 2 decimal places (no hundredth *)
(* is nearer to the mean), lies in [0, 100], and the call leaves the       *)
(* object's subjects and grades unchanged.                                 *)
(***************************************************************************)
C12_Abs(x) == IF x < 0 THEN -x ELSE x

\* h hundredths is a 2-decimal rounding of the mean of the grades: the mean
\* is at most half a hundredth away
C12_IsRoundedMean(h, grades) ==
    2 * C12_Abs(h * Len(grades) - 100 * SumGrades(grades)) <= Len(grades)

C12_AverageStep ==
    (last'.op = "average_grade" /\ perf[last'.role].grades # <<>>)
        => /\ C12_IsRoundedMean(last'.result, perf[last'.role].grades)
           /\ last'.result \in 0..10000
           /\ perf' = perf

\* C12: average_grade() is the rounded mean, in range, and changes nothing
C12_AverageIsRoundedMean == [][C12_AverageStep]_vars

\* the average of [85, 90, 88] has been computed, and is 87.67
C12_Witness ==
    /\ last.op = "average_grade"
    /\ perf[last.role].grades = GradeExample
    /\ last.result = 8767

(***************************************************************************)
(* C11: for every valid grade sequence, get_letter_grade() returns the     *)
(* letter of the 2-decimal rounded average, the thresholds inclusive at    *)
(* the lower end: A from 90, B from 82, C from 75, D from 67, E from 60,   *)
(* otherwise F (90.0 gives A, 89.99 gives B, 82.0 gives B, 59.99 gives F). *)
(***************************************************************************)
C11_Letter(h) ==
    CASE h >= 9000 -> "A"
      [] h \in 8200..8999 -> "B"
      [] h \in 7500..8199 -> "C"
      [] h \in 6700..7499 -> "D"
      [] h \in 6000..6699 -> "E"
      [] h < 6000 -> "F"

\* the 2-decimal roundings of the average of the grades (0.0 for no grades)
C11_Averages(grades) ==
    IF grades = <<>> THEN {0}
    ELSE LET below == (100 * SumGrades(grades)) \div Len(grades)
         IN  {h \in {below, below + 1} : C12_IsRoundedMean(h, grades)}

\* C11: the letter returned is the letter of the rounded average
C11_LetterOfAverage ==
    last.op = "get_letter_grade"
        => \E h \in C11_Averages(perf["real"].grades) : last.result = C11_Letter(h)

\* 66 grades of 90 and one of 89 average 89.99, and the letter is B
C11_Witness ==
    /\ last.op = "get_letter_grade"
    /\ Len(perf["real"].grades) = 67
    /\ SumGrades(perf["real"].grades) = 6029
    /\ last.result = "B"

(***************************************************************************)
(* C13: an assignment to grades or to subjects of an existing              *)
(* AcademicPerformance that is rejected with ValidationError leaves the    *)
(* object's stored subjects and grades exactly as they were before the     *)
(* assignment.                                                             *)
(***************************************************************************)
C13_RejectedStep ==
    (/\ last'.op \in {"set_subjects", "set_grades"}
     /\ last'.exc.type = "ValidationError")
        => perf' = perf

\* C13: a rejected assignment changes neither subjects nor grades
C13_RejectedAssignmentKeepsState == [][C13_RejectedStep]_vars

(***************************************************************************)
(* C14: the tabular backend is a lossless projection of the export record: *)
(* for every record produced by StudentData.to_dict, the flattened mapping *)
(* has exactly one column per leaf value (scalar or list) of the record,   *)
(* also when distinct subject names differ only in non-alphanumeric        *)
(* characters.                                                             *)
(***************************************************************************)
RECURSIVE C14_Leaves(_)
\* the number of leaf values (scalars and lists) of the dict d
C14_Leaves(d) ==
    IF d = <<>> THEN 0
    ELSE (IF d[1][2].t = "dict" THEN C14_Leaves(d[1][2].v) ELSE 1)
         + C14_Leaves(Tail(d))

\* C14: a CSV file saved from the record has one column per leaf of the record
C14_OneColumnPerLeaf ==
    (last.op = "save" /\ last.backend = "CSV" /\ last.exc = NoExc)
        => Len(last.payload.header) = C14_Leaves(data)

====
